---------------------------- MODULE Spec2Model ----------------------------
(***************************************************************************)
(* A model of plugin/standard-message-codec.go: the Flutter standard       *)
(* message codec (EncodeMessage / DecodeMessage and their helpers).        *)
(*                                                                         *)
(* Go values are records [kind, val, ...]; a bytes.Buffer is the byte      *)
(* sequence it holds together with its read offset.  A Go error is a       *)
(* string ("nil" for no error); a run-time panic is the status "panic".    *)
(* Integers of the model stay inside the signed 32-bit range, so int32     *)
(* conversions of them are exact; int16 conversions wrap as in Go.         *)
(***************************************************************************)
EXTENDS Integers, Sequences, FiniteSets, TLC

\* Go's nil interface value, and the absence of a result.  Every value is a record
\* whose first field, kind, names its dynamic type.
Nil == [kind |-> "nil"]
NoResult == [kind |-> "none"]

VARIABLES
    size,       \* SpecSize: the int handed to writeSize
    sizeBuf,    \* SpecSize: the buffer after writeSize (bytes and error)
    sizeRead,   \* SpecSize: what readSize returned from sizeBuf
    pcSize,     \* SpecSize: "start" | "written" | "read" | "off"
    message,    \* Spec: the value handed to EncodeMessage
    encoded,    \* Spec: what EncodeMessage returned
    data,       \* Spec: the caller's byte slice handed to DecodeMessage
    decoded,    \* Spec: what DecodeMessage returned
    returned,   \* Spec: the decoded message as it read when DecodeMessage returned
    pc          \* Spec: "off" | "start" | "encoded" | "received" | "decoded" | "written"

vars == <<size, sizeBuf, sizeRead, pcSize, message, encoded, data, decoded, returned, pc>>

sizeVars == <<size, sizeBuf, sizeRead, pcSize>>
codecVars == <<message, encoded, data, decoded, returned, pc>>

----------------------------------------------------------------------------
(* Type discriminator bytes.                                               *)
standardMessageType_null == 0
standardMessageType_true == 1
standardMessageType_false == 2
standardMessageType_int32 == 3
standardMessageType_int64 == 4
standardMessageType_bigint == 5
standardMessageType_float64 == 6
standardMessageType_string == 7
standardMessageType_byteSlice == 8
standardMessageType_int32Slice == 9
standardMessageType_int64Slice == 10
standardMessageType_float64Slice == 11
standardMessageType_list == 12
standardMessageType_map == 13

----------------------------------------------------------------------------
(* Bounds of the model.                                                    *)
MaxSize == 65540        \* sizes 0..MaxSize are handed to writeSize
MaxListLen == 2         \* elements of a generated list
MaxMapLen == 2          \* pairs of a generated map
MaxDataLen == 4         \* length of an exhaustively generated raw input
MaxDrop == 3            \* trailing bytes a truncated message may miss
LongLen == 32768        \* length of the long string message

Min(a, b) == IF a < b THEN a ELSE b

Reverse(s) == [i \in 1..Len(s) |-> s[Len(s) + 1 - i]]

----------------------------------------------------------------------------
(* Fixed-width integers.                                                   *)

\* The package's byte order (declared outside this file): one fixed order.
endian == "LittleEndian"

\* Go's int16(value): the low 16 bits, read as a signed integer.
Int16(n) == ((n + 32768) % 65536) - 32768

\* The w low bytes of the two's complement of n, least significant first.
RECURSIVE LowBytes(_, _)
LowBytes(n, w) == IF w = 0 THEN <<>> ELSE <<n % 256>> \o LowBytes(n \div 256, w - 1)

\* The signed integer whose two's complement bytes, least significant first, are bs.
RECURSIVE SignedOf(_)
SignedOf(bs) ==
    IF Len(bs) = 1 THEN (IF bs[1] >= 128 THEN bs[1] - 256 ELSE bs[1])
    ELSE bs[1] + 256 * SignedOf(Tail(bs))

\* binary.Write(w, endian, value) of a w-byte integer: the bytes appended.
PutInt(n, w) == IF endian = "LittleEndian" THEN LowBytes(n, w) ELSE Reverse(LowBytes(n, w))

\* binary.Read(r, endian, &value) of a signed integer held in bs.
GetInt(bs) == IF endian = "LittleEndian" THEN SignedOf(bs) ELSE SignedOf(Reverse(bs))

writeInt16(buf, value) == buf \o PutInt(value, 2)

writeInt32(buf, value) == buf \o PutInt(value, 4)

writeInt64(buf, value) == buf \o PutInt(value, 8)

\* A float64 is its IEEE-754 bit pattern, held as 8 bytes, most significant first.
writeFloat64(buf, bits) == buf \o (IF endian = "LittleEndian" THEN Reverse(bits) ELSE bits)

\* binary.Read of w bytes at offset off of d: io.ReadFull drains what is there.
ReadFull(d, off, w) ==
    IF Len(d) - off >= w
    THEN [err |-> "nil", bs |-> SubSeq(d, off + 1, off + w), off |-> off + w]
    ELSE [err |-> IF Len(d) = off THEN "EOF" ELSE "unexpected EOF", bs |-> <<>>, off |-> Len(d)]

ReadIntN(d, off, w) ==
    LET r == ReadFull(d, off, w)
    IN  [err |-> r.err, val |-> IF r.err = "nil" THEN GetInt(r.bs) ELSE 0, off |-> r.off]

readInt16(d, off) == ReadIntN(d, off, 2)

readInt32(d, off) == ReadIntN(d, off, 4)

readInt64(d, off) == ReadIntN(d, off, 8)

readFloat64(d, off) ==
    LET r == ReadFull(d, off, 8)
    IN  [err |-> r.err,
         val |-> IF r.err # "nil" THEN <<0, 0, 0, 0, 0, 0, 0, 0>>
                 ELSE IF endian = "LittleEndian" THEN Reverse(r.bs) ELSE r.bs,
         off |-> r.off]

----------------------------------------------------------------------------
(* The size codec.                                                         *)

\* writeSize with the 2-byte form chosen one value too late (value <= 254).
writeSize_LateInt16(buf, value) ==
    IF value < 0 THEN [err |-> "invalid size: negative", bytes |-> buf]
    ELSE IF value <= 254 THEN [err |-> "nil", bytes |-> Append(buf, value % 256)]
    ELSE IF value <= 65535
         THEN [err |-> "nil", bytes |-> writeInt16(Append(buf, 254), Int16(value))]
    ELSE [err |-> "nil", bytes |-> writeInt32(Append(buf, 255), value)]

writeSize(buf, value) ==
    IF value < 0 THEN [err |-> "invalid size: negative", bytes |-> buf]
    ELSE IF value < 254 THEN [err |-> "nil", bytes |-> Append(buf, value % 256)]
    ELSE IF value <= 65535
         THEN [err |-> "nil", bytes |-> writeInt16(Append(buf, 254), Int16(value))]
    ELSE [err |-> "nil", bytes |-> writeInt32(Append(buf, 255), value)]

readSize(d, off) ==
    IF off >= Len(d) THEN [err |-> "EOF", val |-> 0, off |-> off]
    ELSE LET b == d[off + 1]
         IN  IF b < 254 THEN [err |-> "nil", val |-> b, off |-> off + 1]
             ELSE IF b = 254 THEN readInt16(d, off + 1)
             ELSE readInt32(d, off + 1)

----------------------------------------------------------------------------
(* The recursive value writer.  A buffer under construction is its bytes    *)
(* (nothing is read from it, so buf.Len() is their number) and the log of   *)
(* the alignment points passed so far.                                      *)

HexDigit(d) == IF d < 10 THEN 48 + d ELSE 87 + d

RECURSIVE HexDigits(_)
HexDigits(n) == IF n < 16 THEN <<HexDigit(n)>> ELSE Append(HexDigits(n \div 16), HexDigit(n % 16))

\* (*big.Int).Text(16): a minus sign for a negative value, then lowercase hex digits.
BigText16(n) == IF n < 0 THEN <<45>> \o HexDigits(0 - n) ELSE HexDigits(n)

\* writeAlignment that pads a full alignment when the buffer is already aligned.
writeAlignment_AlwaysPad(buf, alignment) ==
    LET mod == Len(buf.bytes) % alignment
        padded == buf.bytes \o [i \in 1..(alignment - mod) |-> 0]
    IN  [bytes |-> padded,
         log |-> Append(buf.log, [align |-> alignment, before |-> Len(buf.bytes),
                                  start |-> Len(padded)])]

writeAlignment(buf, alignment) ==
    LET mod == Len(buf.bytes) % alignment
        padded == IF mod # 0 THEN buf.bytes \o [i \in 1..(alignment - mod) |-> 0]
                  ELSE buf.bytes
    IN  [bytes |-> padded,
         log |-> Append(buf.log, [align |-> alignment, before |-> Len(buf.bytes),
                                  start |-> Len(padded)])]

WriteByte(buf, b) == [bytes |-> Append(buf.bytes, b), log |-> buf.log]

WriteRaw(buf, bs) == [bytes |-> buf.bytes \o bs, log |-> buf.log]

\* writeSize on a buffer under construction.
WriteSizeTo(buf, n) ==
    LET r == writeSize(buf.bytes, n) IN [err |-> r.err, bytes |-> r.bytes, log |-> buf.log]

Ok(buf) == [err |-> "nil", bytes |-> buf.bytes, log |-> buf.log]

\* writeString / writeBytes: the length, then the bytes.
writeBytes(buf, value) ==
    LET r == WriteSizeTo(buf, Len(value)) IN IF r.err # "nil" THEN r ELSE Ok(WriteRaw(r, value))

RECURSIVE Flatten(_)
Flatten(ss) == IF ss = <<>> THEN <<>> ELSE Head(ss) \o Flatten(Tail(ss))

\* binary.Write of a slice: its elements back to back.
IntSliceBytes(xs, w) == Flatten([i \in 1..Len(xs) |-> PutInt(xs[i], w)])

FloatSliceBytes(xs) == Flatten([i \in 1..Len(xs) |-> writeFloat64(<<>>, xs[i])])

\* A numeric slice: tag, element count, alignment to the element width, elements.
WriteSlice(buf, tag, count, alignment, payload) ==
    LET r == WriteSizeTo(WriteByte(buf, tag), count)
    IN  IF r.err # "nil" THEN r ELSE Ok(WriteRaw(writeAlignment(r, alignment), payload))

\* An order in which `range` may visit the pairs of a map: ord = <<rotation, reversed>>.
MapOrder(pairs, ord) ==
    LET n == Len(pairs)
        rot == [i \in 1..n |-> pairs[((i - 1 + ord[1]) % n) + 1]]
    IN  IF ord[2] THEN Reverse(rot) ELSE rot

MessageTypeError == "MessageTypeError"

\* The default case with its error dropped: an unsupported value writes nothing.
UnsupportedType_Silent(buf, value) == Ok(buf)

\* default: return MessageTypeError{...}
UnsupportedType(buf, value) == [err |-> MessageTypeError, bytes |-> buf.bytes, log |-> buf.log]

RECURSIVE writeValue(_, _, _)
RECURSIVE WriteElements(_, _, _)

\* for _, v := range xs { err = s.writeValue(buf, v); if err != nil { return err } }
WriteElements(buf, xs, ord) ==
    IF xs = <<>> THEN Ok(buf)
    ELSE LET r == writeValue(buf, Head(xs), ord)
         IN  IF r.err # "nil" THEN r ELSE WriteElements(r, Tail(xs), ord)

\* A map's pairs, flattened key, value, key, value, ...
KeysAndValues(pairs) == Flatten([i \in 1..Len(pairs) |-> <<pairs[i][1], pairs[i][2]>>])

writeValue(buf, value, ord) ==
    CASE value.kind = "nil" -> Ok(WriteByte(buf, standardMessageType_null))
      [] value.kind = "bool" ->
            Ok(WriteByte(buf, IF value.val THEN standardMessageType_true
                                           ELSE standardMessageType_false))
      [] value.kind = "int32" ->
            Ok(WriteRaw(WriteByte(buf, standardMessageType_int32), PutInt(value.val, 4)))
      [] value.kind = "int64" ->
            Ok(WriteRaw(WriteByte(buf, standardMessageType_int64), PutInt(value.val, 8)))
      [] value.kind = "float64" ->
            Ok(WriteRaw(writeAlignment(WriteByte(buf, standardMessageType_float64), 8),
                        writeFloat64(<<>>, value.val)))
      [] value.kind = "bigint" ->
            writeBytes(WriteByte(buf, standardMessageType_bigint), BigText16(value.val))
      [] value.kind = "string" ->
            writeBytes(WriteByte(buf, standardMessageType_string), value.val)
      [] value.kind = "[]byte" ->
            writeBytes(WriteByte(buf, standardMessageType_byteSlice), value.val)
      [] value.kind = "[]int32" ->
            WriteSlice(buf, standardMessageType_int32Slice, Len(value.val), 4,
                       IntSliceBytes(value.val, 4))
      [] value.kind = "[]int64" ->
            WriteSlice(buf, standardMessageType_int64Slice, Len(value.val), 8,
                       IntSliceBytes(value.val, 8))
      [] value.kind = "[]float64" ->
            WriteSlice(buf, standardMessageType_float64Slice, Len(value.val), 8,
                       FloatSliceBytes(value.val))
      [] value.kind = "list" ->
            LET r == WriteSizeTo(WriteByte(buf, standardMessageType_list), Len(value.val))
            IN  IF r.err # "nil" THEN r ELSE WriteElements(r, value.val, ord)
      [] value.kind = "map" ->
            LET r == WriteSizeTo(WriteByte(buf, standardMessageType_map), Len(value.val))
            IN  IF r.err # "nil" THEN r
                ELSE WriteElements(r, KeysAndValues(MapOrder(value.val, ord)), ord)
      [] OTHER -> UnsupportedType(buf, value)

\* The returned error wraps the writer's error, which stays its cause.
EncodeMessage(msg, ord) ==
    LET r == writeValue([bytes |-> <<>>, log |-> <<>>], msg, ord)
    IN  IF r.err # "nil"
        THEN [kind |-> "result", isNil |-> TRUE, bytes |-> <<>>,
              err |-> "failed to encode message", cause |-> r.err, log |-> r.log]
        ELSE [kind |-> "result", isNil |-> FALSE, bytes |-> r.bytes,
              err |-> "nil", cause |-> "nil", log |-> r.log]

----------------------------------------------------------------------------
(* The recursive value reader.  The buffer is the caller's slice d and the  *)
(* read offset off: buf.Len() is Len(d) - off.  A read returns its status   *)
(* ("ok", "err" or "panic"), its error, the value, the new offset, the log  *)
(* of the alignment points passed, and whether an unrecognized tag was read.*)

Res(st, err, val, off, log, bad) ==
    [st |-> st, err |-> err, val |-> val, off |-> off, log |-> log, bad |-> bad]

Fail(err, off, log) == Res("err", err, Nil, off, log, FALSE)

Panic(why, off, log) == Res("panic", why, Nil, off, log, FALSE)

\* What a nested read receives as originalSize if it recomputes it from the buffer left.
NestedOriginalSize_Local(d, off, originalSize) == Len(d) - off

\* The originalSize a list or map read hands to the reads of its elements.
NestedOriginalSize(d, off, originalSize) == originalSize

\* readAlignment: buf.Next(n) skips n bytes, or all that are left when fewer remain.
readAlignment(d, off, originalSize, alignment, log) ==
    LET position == originalSize - (Len(d) - off)
        mod == position % alignment
        next == IF mod # 0 THEN Min(alignment - mod, Len(d) - off) ELSE 0
    IN  [off |-> off + next,
         log |-> Append(log, [align |-> alignment, consumed |-> off, skipped |-> next,
                              left |-> Len(d) - off])]

HexValue(c) ==
    IF c >= 48 /\ c <= 57 THEN c - 48
    ELSE IF c >= 97 /\ c <= 102 THEN c - 87
    ELSE IF c >= 65 /\ c <= 70 THEN c - 55
    ELSE 16

RECURSIVE HexNumber(_)
HexNumber(cs) == IF cs = <<>> THEN 0 ELSE 16 * HexNumber(SubSeq(cs, 1, Len(cs) - 1)) + HexValue(cs[Len(cs)])

\* new(big.Int).SetString(s, 16): an optional sign, then one or more hex digits.
SetString16(cs) ==
    LET signed == cs # <<>> /\ cs[1] \in {43, 45}
        digits == IF signed THEN Tail(cs) ELSE cs
    IN  IF digits = <<>> \/ \E i \in 1..Len(digits) : HexValue(digits[i]) = 16
        THEN [ok |-> FALSE, val |-> 0]
        ELSE [ok |-> TRUE,
              val |-> IF signed /\ cs[1] = 45 THEN 0 - HexNumber(digits) ELSE HexNumber(digits)]

\* readBytes: the slice buf.Next returns shares the caller's array, so the value is
\* the place of the bytes in d, not a copy of them.
readBytes(d, off) ==
    LET r == readSize(d, off)
    IN  IF r.err # "nil" THEN [st |-> "err", err |-> "reading size", base |-> 0, len |-> 0, off |-> r.off]
        ELSE IF r.val < 0
        THEN [st |-> "panic", err |-> "slice bounds out of range", base |-> 0, len |-> 0, off |-> r.off]
        ELSE IF Len(d) - r.off < r.val
        THEN [st |-> "err", err |-> "message corrupted: not enough bytes in buffer",
              base |-> 0, len |-> 0, off |-> Len(d)]
        ELSE [st |-> "ok", err |-> "nil", base |-> r.off, len |-> r.val, off |-> r.off + r.val]

\* The bytes a slice of d holds now.
SliceOf(d, base, len) == SubSeq(d, base + 1, base + len)

\* The consecutive w-byte pieces of bs.
Chunks(bs, w) == [i \in 1..(Len(bs) \div w) |-> SubSeq(bs, (i - 1) * w + 1, i * w)]

\* A numeric slice: count, alignment, make([]T, length), binary.Read of the elements.
ReadSlice(d, off, originalSize, w, kind, log) ==
    LET n == readSize(d, off)
    IN  IF n.err # "nil" THEN Fail(n.err, n.off, log)
        ELSE LET a == readAlignment(d, n.off, originalSize, w, log)
             IN  IF n.val < 0 THEN Panic("makeslice: len out of range", a.off, a.log)
                 ELSE LET r == ReadFull(d, a.off, w * n.val)
                      IN  IF r.err # "nil" THEN Fail(r.err, r.off, a.log)
                          ELSE Res("ok", "nil",
                                   [kind |-> kind,
                                    val |-> [i \in 1..n.val |->
                                               IF kind = "[]float64"
                                               THEN readFloat64(Chunks(r.bs, w)[i], 0).val
                                               ELSE GetInt(Chunks(r.bs, w)[i])]],
                                   r.off, a.log, FALSE)

Hashable(v) == v.kind \in {"nil", "bool", "int32", "int64", "float64", "bigint", "string"}

IsNaN(bits) ==
    /\ (bits[1] % 128) * 16 + (bits[2] \div 16) = 2047
    /\ (bits[2] % 16 # 0 \/ \E i \in 3..8 : bits[i] # 0)

IsZero(bits) == bits[1] \in {0, 128} /\ \A i \in 2..8 : bits[i] = 0

\* == on two interface values holding hashable types: pointers (bigint) compare by
\* identity, floats by IEEE equality, the rest by value.
GoEqual(a, b) ==
    /\ a.kind = b.kind
    /\ IF a.kind = "float64"
       THEN /\ ~IsNaN(a.val)
            /\ ~IsNaN(b.val)
            /\ (a.val = b.val \/ (IsZero(a.val) /\ IsZero(b.val)))
       ELSE a = b

\* m[key] = value on a map held as its pairs in insertion order.
MapAssign(m, key, value) ==
    IF \E i \in 1..Len(m) : GoEqual(m[i][1], key)
    THEN [i \in 1..Len(m) |-> IF GoEqual(m[i][1], key) THEN <<m[i][1], value>> ELSE m[i]]
    ELSE Append(m, <<key, value>>)

\* The default case, returning the zero value and no error.
InvalidValueType_Silent(off, log) == Res("ok", "nil", Nil, off, log, TRUE)

\* default: return nil, errors.New("invalid message value type")
InvalidValueType(off, log) == Res("err", "invalid message value type", Nil, off, log, TRUE)

RECURSIVE readValueAligned(_, _, _, _)
RECURSIVE ReadElements(_, _, _, _, _, _)
RECURSIVE ReadPairs(_, _, _, _, _, _)

\* for i := 0; i < length; i++ { value, err := ...; list = append(list, value) }
ReadElements(d, off, originalSize, n, list, log) ==
    IF n <= 0 THEN Res("ok", "nil", [kind |-> "list", val |-> list], off, log, FALSE)
    ELSE LET r == readValueAligned(d, off, NestedOriginalSize(d, off, originalSize), log)
         IN  IF r.st # "ok" THEN Res(r.st, r.err, Nil, r.off, r.log, r.bad)
             ELSE ReadElements(d, r.off, originalSize, n - 1, Append(list, r.val), r.log)

\* for i := 0; i < length; i++ { key, err := ...; value, err := ...; m[key] = value }
ReadPairs(d, off, originalSize, n, m, log) ==
    IF n <= 0 THEN Res("ok", "nil", [kind |-> "map", val |-> m], off, log, FALSE)
    ELSE LET k == readValueAligned(d, off, NestedOriginalSize(d, off, originalSize), log)
         IN  IF k.st # "ok" THEN Res(k.st, k.err, Nil, k.off, k.log, k.bad)
             ELSE LET v == readValueAligned(d, k.off,
                                            NestedOriginalSize(d, k.off, originalSize), k.log)
                  IN  IF v.st # "ok" THEN Res(v.st, v.err, Nil, v.off, v.log, v.bad)
                      ELSE IF ~Hashable(k.val)
                      THEN Panic("runtime error: hash of unhashable type", v.off, v.log)
                      ELSE ReadPairs(d, v.off, originalSize, n - 1,
                                     MapAssign(m, k.val, v.val), v.log)

readValueAligned(d, off, originalSize, log) ==
    IF off >= Len(d) THEN Fail("reading value type", off, log)
    ELSE LET valueType == d[off + 1]
             at == off + 1
         IN
    CASE valueType = standardMessageType_null -> Res("ok", "nil", Nil, at, log, FALSE)
      [] valueType = standardMessageType_true ->
            Res("ok", "nil", [kind |-> "bool", val |-> TRUE], at, log, FALSE)
      [] valueType = standardMessageType_false ->
            Res("ok", "nil", [kind |-> "bool", val |-> FALSE], at, log, FALSE)
      [] valueType = standardMessageType_int32 ->
            LET r == readInt32(d, at)
            IN  Res(IF r.err = "nil" THEN "ok" ELSE "err", r.err,
                    [kind |-> "int32", val |-> r.val], r.off, log, FALSE)
      [] valueType = standardMessageType_int64 ->
            LET r == readInt64(d, at)
            IN  Res(IF r.err = "nil" THEN "ok" ELSE "err", r.err,
                    [kind |-> "int64", val |-> r.val], r.off, log, FALSE)
      [] valueType = standardMessageType_float64 ->
            LET a == readAlignment(d, at, originalSize, 8, log)
                r == readFloat64(d, a.off)
            IN  Res(IF r.err = "nil" THEN "ok" ELSE "err", r.err,
                    [kind |-> "float64", val |-> r.val], r.off, a.log, FALSE)
      [] valueType = standardMessageType_bigint ->
            LET bs == readBytes(d, at)
            IN  IF bs.st = "panic" THEN Panic(bs.err, bs.off, log)
                ELSE IF bs.st = "err" THEN Fail("reading byte slice for bigint", bs.off, log)
                ELSE LET z == SetString16(SliceOf(d, bs.base, bs.len))
                     IN  IF ~z.ok THEN Fail("invalid binary encoding for bigint", bs.off, log)
                         ELSE Res("ok", "nil", [kind |-> "bigint", val |-> z.val, ptr |-> off],
                                  bs.off, log, FALSE)
      [] valueType = standardMessageType_string ->
            LET bs == readBytes(d, at)
            IN  IF bs.st = "panic" THEN Panic(bs.err, bs.off, log)
                ELSE IF bs.st = "err" THEN Fail("reading byte slice for string", bs.off, log)
                ELSE Res("ok", "nil", [kind |-> "string", val |-> SliceOf(d, bs.base, bs.len)],
                         bs.off, log, FALSE)
      [] valueType = standardMessageType_byteSlice ->
            LET bs == readBytes(d, at)
            IN  IF bs.st = "panic" THEN Panic(bs.err, bs.off, log)
                ELSE IF bs.st = "err" THEN Fail("reading byte slice", bs.off, log)
                ELSE Res("ok", "nil", [kind |-> "[]byte", base |-> bs.base, len |-> bs.len],
                         bs.off, log, FALSE)
      [] valueType = standardMessageType_int32Slice ->
            ReadSlice(d, at, originalSize, 4, "[]int32", log)
      [] valueType = standardMessageType_int64Slice ->
            ReadSlice(d, at, originalSize, 8, "[]int64", log)
      [] valueType = standardMessageType_float64Slice ->
            ReadSlice(d, at, originalSize, 8, "[]float64", log)
      [] valueType = standardMessageType_list ->
            LET n == readSize(d, at)
            IN  IF n.err # "nil" THEN Fail(n.err, n.off, log)
                ELSE IF n.val < 0 THEN Panic("makeslice: cap out of range", n.off, log)
                ELSE ReadElements(d, n.off, originalSize, n.val, <<>>, log)
      [] valueType = standardMessageType_map ->
            LET n == readSize(d, at)
            IN  IF n.err # "nil" THEN Fail(n.err, n.off, log)
                ELSE ReadPairs(d, n.off, originalSize, n.val, <<>>, log)
      [] OTHER -> InvalidValueType(at, log)

\* readValue: originalSize := len(buf.Bytes()), taken once, before anything is read.
readValue(d) == readValueAligned(d, 0, Len(d), <<>>)

\* DecodeMessage: on an error the message returned is nil; a panic returns nothing.
DecodeMessage(d) ==
    LET r == readValue(d)
    IN  [kind |-> "result", st |-> r.st,
         err |-> IF r.st = "err" THEN "failed to decode data to message" ELSE r.err,
         cause |-> r.err,
         msg |-> IF r.st = "ok" THEN r.val ELSE Nil,
         off |-> r.off, log |-> r.log, bad |-> r.bad]

----------------------------------------------------------------------------
(* Values as the caller sees them.                                          *)

\* The value v, read with the caller's slice holding d: a byte slice is the bytes
\* of d it points at, a *big.Int the integer it points at, a map its set of pairs.
RECURSIVE View(_, _)
View(v, d) ==
    CASE v.kind = "[]byte" ->
            [kind |-> "[]byte",
             val |-> IF "base" \in DOMAIN v THEN SliceOf(d, v.base, v.len) ELSE v.val]
      [] v.kind = "bigint" -> [kind |-> "bigint", val |-> v.val]
      [] v.kind = "list" ->
            [kind |-> "list", val |-> [i \in 1..Len(v.val) |-> View(v.val[i], d)]]
      [] v.kind = "map" ->
            [kind |-> "map",
             val |-> {<<View(v.val[i][1], d), View(v.val[i][2], d)>> : i \in 1..Len(v.val)}]
      [] OTHER -> v

SupportedKinds ==
    {"nil", "bool", "int32", "int64", "bigint", "float64", "string", "[]byte",
     "[]int32", "[]int64", "[]float64", "list", "map"}

\* Whether v is built of the thirteen supported variants only.
RECURSIVE Supported(_)
Supported(v) ==
    /\ v.kind \in SupportedKinds
    /\ v.kind = "list" => \A i \in 1..Len(v.val) : Supported(v.val[i])
    /\ v.kind = "map" =>
          \A i \in 1..Len(v.val) : Supported(v.val[i][1]) /\ Supported(v.val[i][2])

\* The largest length (of a string, slice, list or map) inside v.
RECURSIVE MaxLength(_)
MaxLength(v) ==
    LET Max(S) == IF S = {} THEN 0 ELSE CHOOSE x \in S : \A y \in S : y <= x
    IN  CASE v.kind \in {"string", "[]byte", "[]int32", "[]int64", "[]float64"} -> Len(v.val)
          [] v.kind = "bigint" -> Len(BigText16(v.val))
          [] v.kind = "list" ->
                Max({Len(v.val)} \cup {MaxLength(v.val[i]) : i \in 1..Len(v.val)})
          [] v.kind = "map" ->
                Max({Len(v.val)} \cup {MaxLength(v.val[i][1]) : i \in 1..Len(v.val)}
                                 \cup {MaxLength(v.val[i][2]) : i \in 1..Len(v.val)})
          [] OTHER -> 0

----------------------------------------------------------------------------
(* The messages and raw inputs the model runs the codec on.                 *)

Bool(b) == [kind |-> "bool", val |-> b]
Int32(n) == [kind |-> "int32", val |-> n]
Int64(n) == [kind |-> "int64", val |-> n]
BigInt(n) == [kind |-> "bigint", val |-> n]
Float64(bits) == [kind |-> "float64", val |-> bits]
String(bs) == [kind |-> "string", val |-> bs]
Bytes(bs) == [kind |-> "[]byte", val |-> bs]
Int32Slice(xs) == [kind |-> "[]int32", val |-> xs]
Int64Slice(xs) == [kind |-> "[]int64", val |-> xs]
Float64Slice(xs) == [kind |-> "[]float64", val |-> xs]
List(xs) == [kind |-> "list", val |-> xs]
Map(pairs) == [kind |-> "map", val |-> pairs]

\* Values of types the codec does not support.
Int16Value == [kind |-> "int16", val |-> 7]
FuncValue == [kind |-> "func"]

\* The bit patterns of 1.5 and -2.0.
OneAndHalf == <<63, 248, 0, 0, 0, 0, 0, 0>>
MinusTwo == <<192, 0, 0, 0, 0, 0, 0, 0>>

Leaves ==
    {Nil, Bool(TRUE), Bool(FALSE), Int32(42), Int32(-1), Int64(7), Int64(-2),
     BigInt(255), BigInt(-1), BigInt(0), Float64(OneAndHalf), String(<<>>), String(<<97>>),
     Bytes(<<>>), Bytes(<<9, 8>>), Int32Slice(<<>>), Int32Slice(<<1, -2>>),
     Int64Slice(<<3>>), Float64Slice(<<OneAndHalf, MinusTwo>>), Int16Value, FuncValue}

Elements ==
    {Nil, Bool(TRUE), Int32(42), BigInt(255), Float64(OneAndHalf), String(<<97>>),
     Bytes(<<9, 8>>), Int32Slice(<<1, -2>>), Float64Slice(<<OneAndHalf>>), FuncValue}

\* Map keys (hashable, pairwise distinct, the last of an unsupported type) and map values.
KeySeq == <<String(<<120>>), String(<<121>>), Int32(1), BigInt(255), Int16Value>>
MapValues == {Int32(1), Int32(2), Float64(OneAndHalf), Int16Value}

Lists(n) == UNION {{List(xs) : xs \in [1..k -> Elements]} : k \in 0..n}

\* The maps of k pairs: increasing choices of keys, any values.
MapsOf(k) ==
    {Map([i \in 1..k |-> <<KeySeq[ks[i]], vs[i]>>]) :
        <<ks, vs>> \in {ix \in [1..k -> 1..Len(KeySeq)] :
                          \A i \in 1..k : \A j \in 1..k : i < j => ix[i] < ix[j]}
                       \X [1..k -> MapValues]}

Maps(n) == UNION {MapsOf(k) : k \in 0..n}

\* A list or map nested inside a list (after a null) and inside a map.
Nested ==
    UNION {{List(<<Nil, x>>), Map(<<<<String(<<107>>), x>>>>), List(<<Nil, List(<<Bool(TRUE), x>>)>>)} :
             x \in Lists(1) \cup MapsOf(1)}

\* A string long enough for its length to need the 2-byte size form with the top bit set.
LongString == String([i \in 1..LongLen |-> 97])

Messages == Leaves \cup Lists(MaxListLen) \cup Maps(MaxMapLen) \cup Nested \cup {LongString}

RawBytes == {0, 1, 2, 5, 8, 9, 12, 13, 49, 254, 255}

RawInputs == UNION {[1..n -> RawBytes] : n \in 0..MaxDataLen}

\* The heads of streams that open a list or a map around the value that follows:
\* the value is a list element, a map key, a map value, or lies two levels deep.
Wrappers ==
    {<<standardMessageType_list, 1>>,
     <<standardMessageType_list, 2, standardMessageType_null>>,
     <<standardMessageType_map, 1>>,
     <<standardMessageType_map, 1, standardMessageType_true>>,
     <<standardMessageType_list, 1, standardMessageType_list, 1>>,
     <<standardMessageType_list, 1, standardMessageType_map, 1, standardMessageType_null>>}

WrappedInputs ==
    {w \o d : <<w, d>> \in Wrappers \X UNION {[1..n -> RawBytes] : n \in 0..(MaxDataLen - 1)}}

\* Streams of a map of two pairs whose keys may have identical encoded bytes.
KeyCandidates == {Nil, Int32(1), String(<<120>>), String(<<121>>), BigInt(255), BigInt(1), Bytes(<<9>>)}

Encoding(v) == EncodeMessage(v, <<0, FALSE>>).bytes

\* The stream of a map of the two pairs k1: v1 and k2: v2, in this order.
PairStream(k1, v1, k2, v2) ==
    <<standardMessageType_map, 2>> \o Encoding(k1) \o Encoding(v1) \o Encoding(k2) \o Encoding(v2)

FirstValues == {Bool(TRUE)}
LastValues == {Bool(FALSE), Int32(2)}

PairStreams ==
    {PairStream(k1, v1, k2, v2) :
        <<k1, v1, k2, v2>> \in KeyCandidates \X FirstValues \X KeyCandidates \X LastValues}

----------------------------------------------------------------------------
(* Spec: a caller encodes a message and decodes the bytes (whole or cut     *)
(* short), or decodes raw bytes; afterwards it may write to its own slice.  *)

SizeOff ==
    /\ size = 0
    /\ sizeBuf = [err |-> "nil", bytes |-> <<>>, start |-> 0]
    /\ sizeRead = [err |-> "nil", val |-> 0, off |-> 0]
    /\ pcSize = "off"

Init ==
    /\ SizeOff
    /\ encoded = NoResult
    /\ decoded = NoResult
    /\ returned = NoResult
    /\ \/ /\ pc = "start"
          /\ message \in Messages
          /\ data = <<>>
       \/ /\ pc = "received"
          /\ message = NoResult
          /\ data \in RawInputs \cup WrappedInputs \cup PairStreams

\* EncodeMessage(message); ord is the order in which range visits a map's pairs.
Encode(ord) ==
    /\ pc = "start"
    /\ encoded' = EncodeMessage(message, ord)
    /\ pc' = "encoded"
    /\ UNCHANGED <<message, data, decoded, returned>>
    /\ UNCHANGED sizeVars

\* The encoded bytes reach the receiving side as they are.
Deliver ==
    /\ pc = "encoded"
    /\ encoded.err = "nil"
    /\ data' = encoded.bytes
    /\ pc' = "received"
    /\ UNCHANGED <<message, encoded, decoded, returned>>
    /\ UNCHANGED sizeVars

\* The encoded bytes arrive with their last k bytes missing.
DeliverTruncated(k) ==
    /\ pc = "encoded"
    /\ encoded.err = "nil"
    /\ k <= Len(encoded.bytes)
    /\ data' = SubSeq(encoded.bytes, 1, Len(encoded.bytes) - k)
    /\ pc' = "received"
    /\ UNCHANGED <<message, encoded, decoded, returned>>
    /\ UNCHANGED sizeVars

\* DecodeMessage(data) on the caller's slice.
Decode ==
    /\ pc = "received"
    /\ decoded' = DecodeMessage(data)
    /\ returned' = View(decoded'.msg, data)
    /\ pc' = "decoded"
    /\ UNCHANGED <<message, encoded, data>>
    /\ UNCHANGED sizeVars

\* After DecodeMessage returned a value, the caller overwrites byte i of its slice.
CallerWrite(i) ==
    /\ pc = "decoded"
    /\ decoded.st = "ok"
    /\ data' = [data EXCEPT ![i] = IF @ = 255 THEN 0 ELSE 255]
    /\ pc' = "written"
    /\ UNCHANGED <<message, encoded, decoded, returned>>
    /\ UNCHANGED sizeVars

Next ==
    \/ \E ord \in (0..(MaxMapLen - 1)) \X BOOLEAN : Encode(ord)
    \/ Deliver
    \/ \E k \in 1..MaxDrop : DeliverTruncated(k)
    \/ Decode
    \/ \E i \in 1..Len(data) : CallerWrite(i)

Spec == Init /\ [][Next]_vars

----------------------------------------------------------------------------
(* SpecSize: writeSize appends a size to a buffer, readSize reads it back. *)

\* What a buffer may hold before the size is written.
SizePrefixes == {<<>>, <<standardMessageType_list>>}

\* Bytes that follow the size in the stream.
SizeTrailer == <<1, 2, 3, 4>>

NoSizeRead == [err |-> "nil", val |-> 0, off |-> 0]

CodecOff ==
    /\ message = NoResult
    /\ encoded = NoResult
    /\ data = <<>>
    /\ decoded = NoResult
    /\ returned = NoResult
    /\ pc = "off"

InitSize ==
    /\ size \in (-1)..MaxSize
    /\ \E p \in SizePrefixes : sizeBuf = [err |-> "nil", bytes |-> p, start |-> Len(p)]
    /\ sizeRead = NoSizeRead
    /\ pcSize = "start"
    /\ CodecOff

WriteSizeStep ==
    /\ pcSize = "start"
    /\ LET r == writeSize(sizeBuf.bytes, size)
       IN  sizeBuf' = [err |-> r.err, bytes |-> r.bytes, start |-> sizeBuf.start]
    /\ pcSize' = "written"
    /\ UNCHANGED <<size, sizeRead>>
    /\ UNCHANGED codecVars

ReadSizeStep ==
    /\ pcSize = "written"
    /\ sizeBuf.err = "nil"
    /\ sizeRead' = readSize(sizeBuf.bytes \o SizeTrailer, sizeBuf.start)
    /\ pcSize' = "read"
    /\ UNCHANGED <<size, sizeBuf>>
    /\ UNCHANGED codecVars

NextSize == WriteSizeStep \/ ReadSizeStep

SpecSize == InitSize /\ [][NextSize]_vars

----------------------------------------------------------------------------
(* Properties of the size codec (SpecSize).                                 *)

\* The bytes writeSize appended.
SizeWritten == SubSeq(sizeBuf.bytes, sizeBuf.start + 1, Len(sizeBuf.bytes))

\* C2: readSize applied to the bytes writeSize(n) produced returns exactly n,
\* without error, and consumes exactly the bytes writeSize wrote.
SizeRoundTrip ==
    (pcSize = "read" /\ size >= 0) =>
        /\ sizeRead.err = "nil"
        /\ sizeRead.val = size
        /\ sizeRead.off = Len(sizeBuf.bytes)

\* The round trip holds for every size whose 2-byte form is not negative as int16.
SizeRoundTripBelowInt16 ==
    (pcSize = "read" /\ size >= 0 /\ (size < 32768 \/ size > 65535)) =>
        /\ sizeRead.err = "nil"
        /\ sizeRead.val = size
        /\ sizeRead.off = Len(sizeBuf.bytes)

\* The unsigned integer whose bytes, in the codec's byte order, are bs.
UnsignedOf(bs) ==
    LET lsb == IF endian = "LittleEndian" THEN bs ELSE Reverse(bs)
    IN  IF Len(bs) = 2 THEN lsb[1] + 256 * lsb[2]
        ELSE lsb[1] + 256 * lsb[2] + 65536 * lsb[3] + 16777216 * lsb[4]

\* C3: writeSize(n) appends 1 byte equal to n when 0 <= n <= 253, byte 254 and a
\* 2-byte integer when 254 <= n <= 65535, byte 255 and a 4-byte integer above.
SizeWidth ==
    (pcSize # "start" /\ size >= 0) =>
        /\ sizeBuf.err = "nil"
        /\ SubSeq(sizeBuf.bytes, 1, sizeBuf.start) \in SizePrefixes
        /\ size <= 253 => SizeWritten = <<size>>
        /\ (size >= 254 /\ size <= 65535) =>
              /\ Len(SizeWritten) = 3
              /\ SizeWritten[1] = 254
              /\ UnsignedOf(SubSeq(SizeWritten, 2, 3)) = size
        /\ size > 65535 =>
              /\ Len(SizeWritten) = 5
              /\ SizeWritten[1] = 255
              /\ UnsignedOf(SubSeq(SizeWritten, 2, 5)) = size

\* A size of each width has been written: 253, 254, 255, 65535 and 65536.
SizeWidthWitness ==
    /\ pcSize = "written"
    /\ size \in {253, 254, 255, 65535, 65536}
    /\ Len(SizeWritten) = (IF size = 253 THEN 1 ELSE IF size = 65536 THEN 5 ELSE 3)

----------------------------------------------------------------------------
(* Properties of the value codec (Spec).                                    *)

Decoded == pc \in {"decoded", "written"}

\* The bytes handed to DecodeMessage are all the bytes EncodeMessage returned.
WholeMessage == message # NoResult /\ encoded # NoResult /\ data = encoded.bytes

\* C1: for every supported value v, EncodeMessage(v) succeeds and
\* DecodeMessage(EncodeMessage(v)) returns, without error, a value deeply equal to v
\* (same variant at every node, lists in order, maps as sets of pairs).
RoundTrip ==
    /\ (pc = "encoded" /\ Supported(message)) => encoded.err = "nil"
    /\ (pc = "decoded" /\ WholeMessage /\ Supported(message)) =>
          /\ decoded.st = "ok"
          /\ View(decoded.msg, data) = View(message, data)

\* The round trip holds for every value none of whose lengths reaches 32768.
RoundTripBelowInt16 ==
    /\ (pc = "encoded" /\ Supported(message)) => encoded.err = "nil"
    /\ (pc = "decoded" /\ WholeMessage /\ Supported(message) /\ MaxLength(message) < 32768) =>
          /\ decoded.st = "ok"
          /\ View(decoded.msg, data) = View(message, data)

\* The number of aligned payloads (Float64, numeric arrays) in v.
RECURSIVE AlignedNodes(_)
AlignedNodes(v) ==
    LET Sum(xs) == Len(Flatten([i \in 1..Len(xs) |-> [j \in 1..xs[i] |-> 0]]))
    IN  CASE v.kind \in {"float64", "[]int32", "[]int64", "[]float64"} -> 1
          [] v.kind = "list" -> Sum([i \in 1..Len(v.val) |-> AlignedNodes(v.val[i])])
          [] v.kind = "map" ->
                Sum([i \in 1..Len(v.val) |->
                       AlignedNodes(v.val[i][1]) + AlignedNodes(v.val[i][2])])
          [] OTHER -> 0

\* C4: in the bytes EncodeMessage produces, every Float64, Int64Array and
\* Float64Array payload begins at a multiple of 8 and every Int32Array payload at a
\* multiple of 4, counted from the start of the message at any nesting depth; the
\* padding is zero bytes, (alignment - remainder) of them, none when the remainder is 0.
EncoderAlignment ==
    (pc # "start" /\ encoded # NoResult /\ encoded.err = "nil") =>
        /\ Len(encoded.log) = AlignedNodes(message)
        /\ \A i \in 1..Len(encoded.log) :
              LET e == encoded.log[i]
                  remainder == e.before % e.align
              IN  /\ e.start % e.align = 0
                  /\ e.start - e.before = (IF remainder = 0 THEN 0 ELSE e.align - remainder)
                  /\ \A j \in (e.before + 1)..e.start : encoded.bytes[j] = 0

\* A Float64 nested in a list after a null was written after 4 bytes of padding.
EncoderAlignmentWitness ==
    /\ pc = "encoded"
    /\ message = List(<<Nil, Float64(OneAndHalf)>>)
    /\ encoded.log = <<[align |-> 8, before |-> 4, start |-> 8]>>
    /\ Len(encoded.bytes) = 16

\* The padding the alignment rule asks for after `consumed` bytes of the message.
Padding(alignment, consumed) == (alignment - (consumed % alignment)) % alignment

UnrecognizedTag ==
    /\ (Decoded /\ decoded.bad) =>
          /\ decoded.st = "err"
          /\ decoded.err # "nil"
          /\ decoded.msg = Nil
          /\ returned = Nil
    /\ (Decoded /\ data = <<255>> /\ pc = "decoded") => decoded.bad

\* An unrecognized tag was read as the value of a map that is a list's element.
UnrecognizedTagWitness ==
    /\ pc = "decoded"
    /\ data = <<standardMessageType_list, 1, standardMessageType_map, 1,
                standardMessageType_null, 255>>
    /\ decoded.bad
    /\ decoded.st = "err"
    /\ decoded.msg = Nil

\* The size a complete size field at the head of bs declares, as writeSize wrote
\* it (unsigned); -1 when the field is not complete.
DeclaredSize(bs) ==
    IF bs = <<>> THEN -1
    ELSE IF bs[1] < 254 THEN bs[1]
    ELSE IF bs[1] = 254 /\ Len(bs) >= 3 THEN UnsignedOf(SubSeq(bs, 2, 3))
    ELSE -1

\* The bytes that follow a complete size field at the head of bs.
AfterSize(bs) == IF bs[1] < 254 THEN Len(bs) - 1 ELSE Len(bs) - 3

\* d holds fewer bytes than its first value needs: no byte at all, fewer than the
\* fixed width of an integer or float, a size field cut short, or fewer bytes than
\* the declared size (one byte at least for each element of a list or map).
ShortInput(d) ==
    \/ d = <<>>
    \/ d[1] = standardMessageType_int32 /\ Len(d) < 5
    \/ d[1] \in {standardMessageType_int64, standardMessageType_float64} /\ Len(d) < 9
    \/ /\ d[1] \in {standardMessageType_bigint, standardMessageType_string,
                    standardMessageType_byteSlice, standardMessageType_int32Slice,
                    standardMessageType_int64Slice, standardMessageType_float64Slice,
                    standardMessageType_list, standardMessageType_map}
       /\ \/ Len(d) = 1
          \/ Tail(d)[1] = 254 /\ Len(d) < 4
          \/ Tail(d)[1] = 255 /\ Len(d) < 6
          \/ /\ DeclaredSize(Tail(d)) > 0
             /\ AfterSize(Tail(d)) < DeclaredSize(Tail(d))

\* C8: DecodeMessage on an input with fewer bytes than a fixed width, a declared
\* size or a declared element count requires returns an error and a nil message,
\* whatever the declared size is; it does not crash and returns no value.
ShortReadIsError ==
    (pc = "decoded" /\ ShortInput(data)) =>
        /\ decoded.st = "err"
        /\ decoded.msg = Nil

\* The short-read rule holds whenever the declared size is below 32768.
ShortReadBelowInt16 ==
    (pc = "decoded" /\ ShortInput(data)
       /\ (Len(data) >= 4 /\ data[2] = 254 => DeclaredSize(Tail(data)) < 32768)) =>
        /\ decoded.st = "err"
        /\ decoded.msg = Nil

\* Keys of the variants the duplicate-key rule names, and of nil.
NamedKeys == {Nil, Int32(1), String(<<120>>), BigInt(255)}

\* C9: when a map in the stream holds two pairs whose keys have identical encoded
\* bytes, DecodeMessage returns without error a map with a single entry for that
\* key, whose value is that of the last pair.
DuplicateKeyLastWins ==
    \A k \in NamedKeys : \A v1 \in FirstValues : \A v2 \in LastValues :
        (pc = "decoded" /\ data = PairStream(k, v1, k, v2)) =>
            /\ decoded.st = "ok"
            /\ decoded.msg.kind = "map"
            /\ Len(decoded.msg.val) = 1
            /\ returned = [kind |-> "map", val |-> {<<k, v2>>}]

\* The rule holds for keys Go compares by value: nil, int32 and string.
DuplicateComparableKeyLastWins ==
    \A k \in NamedKeys \ {BigInt(255)} : \A v1 \in FirstValues : \A v2 \in LastValues :
        (pc = "decoded" /\ data = PairStream(k, v1, k, v2)) =>
            /\ decoded.st = "ok"
            /\ decoded.msg.kind = "map"
            /\ Len(decoded.msg.val) = 1
            /\ returned = [kind |-> "map", val |-> {<<k, v2>>}]

\* C10: after DecodeMessage(data) returned a value, a write by the caller to the
\* bytes of data leaves the returned value as it was.
DecodedValueUnshared ==
    pc = "written" => View(decoded.msg, data) = returned

\* A returned value without a byte buffer in it is left as it was.
RECURSIVE HasByteSlice(_)
HasByteSlice(v) ==
    \/ v.kind = "[]byte"
    \/ v.kind = "list" /\ \E i \in 1..Len(v.val) : HasByteSlice(v.val[i])
    \/ v.kind = "map" /\ \E i \in 1..Len(v.val) : HasByteSlice(v.val[i][1]) \/ HasByteSlice(v.val[i][2])

DecodedValueUnsharedButBytes ==
    (pc = "written" /\ ~HasByteSlice(decoded.msg)) => View(decoded.msg, data) = returned

=============================================================================
